---- MODULE Spec2Model ----
(***************************************************************************)
(* Model of compiler-cli/src/dependencies.rs: the dependency download run  *)
(* (download, get_manifest, resolve_versions, the provider walk,           *)
(* remove_extra_packages, add_missing_packages) and the pure set           *)
(* differences of LocalPackages.                                           *)
(***************************************************************************)
EXTENDS Integers, Sequences, FiniteSets, TLC

\* ------------------------------------------------------------------ bounds

\* Versions are 1..MaxVersion.
MaxVersion == 2
\* Longest manifest package list drawn for the pure set differences.
MaxPackages == 2

\* ------------------------------------------------------------ the universe

None == "none"
Versions == 1..MaxVersion
\* The names dependencies can have; RootName is the project's own name.
DepNames == {"a", "b"}
RootName == "app"
\* Path strings written in recipes, and the directories they canonicalize to;
\* p3 is a second spelling of the directory p1 names.
Paths == {"p1", "p2", "p3"}
Dirs == {"d1", "d2"}

\* Path::canonicalize
Canonicalize(path) == IF path = "p2" THEN "d2" ELSE "d1"

\* Recipe: Hex { version } (the range ">= min"), Path { path }, Git { git }
HexRecipe(min) == [kind |-> "Hex", min |-> min, path |-> None]
PathRecipe(path) == [kind |-> "Path", min |-> 0, path |-> path]
GitRecipe == [kind |-> "Git", min |-> 0, path |-> None]
Recipes ==
  {HexRecipe(v) : v \in Versions} \cup {PathRecipe(p) : p \in Paths} \cup {GitRecipe}

\* hexpm::version::Range: ">= v" or "== v"
AtLeast(v) == [op |-> ">=", v |-> v]
Exactly(v) == [op |-> "==", v |-> v]
Satisfies(v, range) == IF range.op = "==" THEN v = range.v ELSE v >= range.v

\* A dependency map (HashMap<String, Recipe>): name -> recipe, NoRecipe for a
\* name that is not a key.
NoRecipe == [kind |-> "None", min |-> 0, path |-> None]
DepMaps == [DepNames -> Recipes \cup {NoRecipe}]
DepKeys(m) == {n \in DOMAIN m : m[n].kind # "None"}
NoDeps == [n \in DepNames |-> NoRecipe]

\* ------------------------------------------------- manifest, local packages

AllNames == DepNames \cup {RootName}

\* ManifestPackageSource: Hex { outer_checksum } or Local { path }
HexSource == [kind |-> "Hex", path |-> None]
LocalSource(dir) == [kind |-> "Local", path |-> dir]

\* ManifestPackage: name, version, the names it requires, source
ManifestPackage(name, version, requirements, source) ==
  [name |-> name, version |-> version, requirements |-> requirements, source |-> source]

\* Manifest { requirements, packages }
Manifest(requirements, packages) == [requirements |-> requirements, packages |-> packages]

Range(seq) == {seq[i] : i \in 1..Len(seq)}

\* LocalPackages { packages: HashMap<String, Version> }: name -> version,
\* NoVersion for a name that is not a key.
NoVersion == 0
NoLocalPackages == [n \in AllNames |-> NoVersion]
Keys(local) == {n \in DOMAIN local : local[n] # NoVersion}

\* LocalPackages::extra_local_packages; the Vec is built in the HashMap's
\* iteration order, which is unspecified, so the result is its set of pairs.
ExtraNameOnly(local, manifest) ==
  LET manifest_names == {p.name : p \in Range(manifest.packages)}
  IN  {<<n, local[n]>> : n \in {k \in Keys(local) : k \notin manifest_names}}

ExtraReversed(local, manifest) ==
  {<<p.name, p.version>> : p \in {q \in Range(manifest.packages) : local[q.name] # q.version}}

ExtraLocalPackages(local, manifest) ==
  LET manifest_packages == {<<p.name, p.version>> : p \in Range(manifest.packages)}
  IN  {<<n, local[n]>> : n \in {k \in Keys(local) : <<k, local[k]>> \notin manifest_packages}}

\* The Vec extra_local_packages builds when the HashMap yields its keys in the
\* given order: filter, then map, then collect.
ExtraUntilKept(order, local, manifest) ==
  LET manifest_packages == {<<p.name, p.version>> : p \in Range(manifest.packages)}
      kept == SelectSeq(order, LAMBDA n : <<n, local[n]>> \notin manifest_packages)
  IN  IF Len(order) > 0 /\ <<order[1], local[order[1]]>> \in manifest_packages
      THEN <<>>
      ELSE [i \in 1..Len(kept) |-> <<kept[i], local[kept[i]]>>]

ExtraInOrder(order, local, manifest) ==
  LET manifest_packages == {<<p.name, p.version>> : p \in Range(manifest.packages)}
      kept == SelectSeq(order, LAMBDA n : <<n, local[n]>> \notin manifest_packages)
  IN  [i \in 1..Len(kept) |-> <<kept[i], local[kept[i]]>>]

\* LocalPackages::missing_local_packages; the Vec keeps the manifest's order.
MissingWithRoot(local, manifest, root) ==
  SelectSeq(manifest.packages, LAMBDA p : local[p.name] # p.version)

MissingLocalPackages(local, manifest, root) ==
  SelectSeq(manifest.packages, LAMBDA p : p.name # root /\ local[p.name] # p.version)

\* LocalPackages::from_manifest; collecting into the HashMap keeps, for a name
\* that occurs more than once, the version of its last occurrence.
FromManifestHexOnly(manifest) ==
  [n \in AllNames |->
     LET at == {i \in 1..Len(manifest.packages) :
                  manifest.packages[i].name = n /\ manifest.packages[i].source.kind = "Hex"}
     IN  IF at = {} THEN NoVersion
         ELSE manifest.packages[CHOOSE i \in at : \A j \in at : j <= i].version]

FromManifest(manifest) ==
  [n \in AllNames |->
     LET at == {i \in 1..Len(manifest.packages) : manifest.packages[i].name = n}
     IN  IF at = {} THEN NoVersion
         ELSE manifest.packages[CHOOSE i \in at : \A j \in at : j <= i].version]

\* list_manifest_packages: writeln!(buffer, "{} {}", package.name,
\* package.version), the pieces of one line of output
ManifestLine(package) == <<package.name, " ", package.version, "\n">>

\* list_manifest_packages when every write succeeds: the buffer after it
ListWithoutRoot(buffer, packages) ==
  LET listed == SelectSeq(packages, LAMBDA p : p.name # RootName)
  IN  buffer \o [i \in 1..Len(listed) |-> ManifestLine(listed[i])]

ListManifestPackages(buffer, packages) ==
  buffer \o [i \in 1..Len(packages) |-> ManifestLine(packages[i])]

\* ------------------------------------------------------ local package configs

\* What crate::config::read finds at <dir>/gleam.toml: a PackageConfig (name,
\* version, dependencies), or nothing it can parse ("bad"). "unread" marks a
\* file no resolution has read yet: its content is fixed by the first read.
OkConfig(name, version, deps) ==
  [state |-> "ok", name |-> name, version |-> version, deps |-> deps]
BadConfig == [state |-> "bad", name |-> None, version |-> NoVersion, deps |-> NoDeps]
UnreadConfig == [state |-> "unread", name |-> None, version |-> NoVersion, deps |-> NoDeps]

\* The version each local package directory declares.
DirVersion(dir) == IF dir = "d1" THEN 1 ELSE MaxVersion

\* The dependency maps local packages declare: registry ranges, paths, git.
NestedRecipes == {HexRecipe(1), GitRecipe} \cup {PathRecipe(p) : p \in Paths}
NestedDepMaps == [DepNames -> NestedRecipes \cup {NoRecipe}]

DirConfigs(dir) ==
  {BadConfig} \cup {OkConfig(n, DirVersion(dir), m) : n \in DepNames, m \in NestedDepMaps}

\* ---------------------------------------------------------------- the state

VARIABLES
  \* the pure functions: inputs, results (the two set differences, the Vec of
  \* extras as built, the lines written by the listing)
  pLocal, pManifest, pRoot, pExtra, pExtraVec, pMissing, pLines, pStage,
  \* the tool invocations on the project: the one whose locals the run
  \* variables hold, the locals of the other one, and who holds the
  \* package-directory lock and the build-tree locks
  current, parked, packages_lock, build_lock,
  \* the file system: local packages' gleam.toml, the root gleam.toml (its
  \* merged dependencies and dev_dependencies), manifest.toml,
  \* build/packages/packages.toml, build/packages/<name>, and the names of
  \* the packages that have a build directory build/<mode>/<target>/<name>
  fsConfigs, config, manifestFile, localFile, packagesDir, buildDirs,
  \* one download run: where it is, its arguments and locals
  pc, use_manifest, cfg, manifest, manifest_updated, local, extra, missing, link_index,
  \* one resolve_versions call: the call stack of the provider walk,
  \* provider_info, provided_packages, the locked baseline, the solver's result
  stack, info, provided, prior, resolved,
  \* what the run did and how it ended
  result, obs

pureVars == <<pLocal, pManifest, pRoot, pExtra, pExtraVec, pMissing, pLines, pStage>>
lockVars == <<current, parked, packages_lock, build_lock>>
diskVars == <<fsConfigs, config, manifestFile, localFile, packagesDir, buildDirs>>
runVars == <<pc, use_manifest, cfg, manifest, manifest_updated, local, extra, missing, link_index>>
walkVars == <<stack, info, provided, prior, resolved>>
vars == <<pureVars, lockVars, diskVars, runVars, walkVars, result, obs>>

\* ---------------------------------------------------------- values of state

\* A file that may not exist: manifest.toml, packages.toml
NoManifestFile == [exists |-> FALSE, content |-> Manifest(NoDeps, <<>>)]
ManifestFileOf(m) == [exists |-> TRUE, content |-> m]
NoLocalFile == [exists |-> FALSE, packages |-> NoLocalPackages]
LocalFileMerged(l) ==
  [exists |-> TRUE,
   packages |-> [n \in AllNames |-> IF l[n] # NoVersion THEN l[n] ELSE localFile.packages[n]]]

LocalFileOf(l) == [exists |-> TRUE, packages |-> l]

\* enum ProviderInfo { Git { repo, commit }, Local { path } }
NoInfo == [kind |-> "None", path |-> None]
LocalInfo(dir) == [kind |-> "Local", path |-> dir]
GitInfo == [kind |-> "Git", path |-> None]

\* A requirements map (name -> Range), NoRange for a name that is not a key.
NoRange == [op |-> "none", v |-> 0]
NoRequirements == [n \in DepNames |-> NoRange]
RequirementKeys(reqs) == {n \in DOMAIN reqs : reqs[n].op # "none"}

\* provided_packages: name -> hexpm::Package with its single release.
NotProvided == [present |-> FALSE, version |-> NoVersion, requirements |-> NoRequirements]
NeverProvided(version, requirements) == NotProvided

Provided(version, requirements) ==
  [present |-> TRUE, version |-> version, requirements |-> requirements]

\* One activation of resolve_versions' loop (the bottom frame, dir "root") or
\* of provide_package's loop: the package walked, the dependencies the loop has
\* still to visit, the requirements it has collected.
Frame(name, dir, deps) ==
  [name |-> name, dir |-> dir, todo |-> DepKeys(deps), requirements |-> NoRequirements]

\* Result<_, Error> of the run; an Err records the step it arose at.
NoResult == [status |-> "none", error |-> None, name |-> None, at |-> None]
Ok == [status |-> "ok", error |-> None, name |-> None, at |-> None]
Err(error, name, at) == [status |-> "err", error |-> error, name |-> name, at |-> at]

NoCall ==
  [fn |-> None, name |-> None, path |-> None, existing |-> NoInfo,
   outcome |-> None, range |-> NoRange]
NoPrev == [ok |-> FALSE, cfg |-> NoDeps]

\* What a run is observed to do: calls of resolve_versions, reads of each local
\* gleam.toml, how often each name's dependencies were walked, the telemetry
\* events of add_missing_packages, the last provide_*_package call with the
\* ProviderInfo entry it found, the sets the run computed, its deletions,
\* links and downloads, the files as they were when it started, and how the
\* previous run ended.
NewObs(prev, mf, lf) ==
  [resolve_calls |-> 0, reads |-> [d \in Dirs |-> 0], git_visited |-> FALSE,
   walks |-> [n \in DepNames |-> 0], events |-> <<>>, deleted_builds |-> {},
   call |-> NoCall, extra |-> {}, missing |-> <<>>, reconciled |-> FALSE,
   deleted |-> {}, linked |-> {}, downloaded |-> {},
   start_manifest |-> mf, start_local |-> lf, prev |-> prev]

\* ------------------------------------------------------------------ locks

\* The processes that take the locks: two invocations of download, and a
\* compilation of the project, which holds a build-tree lock while it runs.
Invocations == {"i1", "i2"}
Compiler == "compiler"
Other(invocation) == IF invocation = "i1" THEN "i2" ELSE "i1"

\* A lock is the set of the processes that hold it. BuildLock::lock and
\* BuildLock::lock_all_build block until no process holds the lock, then the
\* caller holds it; dropping the guard releases it.
Unlocked == {}
CanLock(lock) == lock = Unlocked
Acquire(lock, who) == lock \cup {who}
Release(lock, who) == lock \ {who}

\* download: let _guard = lock.lock(&telemetry)
LockNothing(lock, who) == lock

LockPackages(lock, who) == Acquire(lock, who)

\* remove_extra_packages: let _guard = BuildLock::lock_all_build(paths, telemetry)?
LockAllBuild(lock, who) == Acquire(lock, who)

\* A function that holds a guard in a local returns, with Ok or through `?`:
\* the guard is dropped.
KeepGuard(lock, who) == lock

DropGuard(lock, who) == Release(lock, who)

\* ------------------------------------------------------- the provider walk

Top == stack[Len(stack)]

\* The dependencies the loop of the top frame iterates: the root config's
\* (resolve_versions) or the walked package's own (provide_package).
TopDeps == IF Len(stack) = 1 THEN cfg ELSE fsConfigs[Top.dir].deps

\* crate::config::read of a local package's gleam.toml
ReadChoices(dir) ==
  IF fsConfigs[dir].state = "unread" THEN DirConfigs(dir) ELSE {fsConfigs[dir]}

\* An Err that `?` carries up through resolve_versions, get_manifest and
\* download: the run returns it.
Fail(error, name) ==
  /\ pc' = "returned"
  /\ result' = Err(error, name, pc)

\* The loop body's tail: version_requirements.insert / requirements.insert
Collect(n, range) ==
  stack' = [stack EXCEPT ![Len(stack)] =
              [@ EXCEPT !.todo = @ \ {n}, !.requirements[n] = range]]

\* The call is observed: the ProviderInfo entry it found, what it did (walked
\* the package, answered for a package already walked, or returned an error)
\* and the range it returned.
Called(fn, n, dir, outcome, range) ==
  [obs EXCEPT !.call = [fn |-> fn, name |-> n, path |-> dir, existing |-> info[n],
                        outcome |-> outcome, range |-> range],
              !.git_visited = @ \/ fn = "git"]

Read(o, dir) == [o EXCEPT !.reads[dir] = @ + 1]

\* provide_package starts the loop over the package's dependencies.
Walked(o, n) == [o EXCEPT !.walks[n] = @ + 1]

\* provide_package: config.name != package_name is the name-mismatch error
AnyName(config_name, package_name) == TRUE

NameMatches(config_name, package_name) == config_name = package_name

\* provide_package, up to the start of its loop
ProvidePackage(n, dir) ==
  \E c \in ReadChoices(dir) :
    /\ fsConfigs' = [fsConfigs EXCEPT ![dir] = c]
    /\ IF c.state = "bad"
       THEN /\ obs' = Read(Called("local", n, dir, "failed", NoRange), dir)
            /\ Fail("io", n)
            /\ UNCHANGED stack
       ELSE IF ~NameMatches(c.name, n)
       THEN /\ obs' = Read(Called("local", n, dir, "failed", NoRange), dir)
            /\ Fail("name_mismatch", n)
            /\ UNCHANGED stack
       ELSE /\ obs' = Walked(Read(Called("local", n, dir, "walked", NoRange), dir), n)
            /\ stack' = Append(stack, Frame(n, dir, c.deps))
            /\ UNCHANGED <<pc, result>>

\* provide_local_package: existing_package_info == package_info
SameSourceKind(existing_package_info, package_info) ==
  existing_package_info.kind = package_info.kind

SameSource(existing_package_info, package_info) == existing_package_info = package_info

\* provide_local_package: info.insert(package_name, package_info), before the
\* package is walked
InfoUnchanged(infos, n, package_info) == infos

InfoInsert(infos, n, package_info) == [infos EXCEPT ![n] = package_info]

\* provide_local_package
ProvideLocalPackage(n, path) ==
  LET canonical_path == Canonicalize(path)
      package_info == LocalInfo(canonical_path)
      existing_package_info == info[n]
  IN  /\ info' = InfoInsert(info, n, package_info)
      /\ IF existing_package_info = NoInfo
         THEN ProvidePackage(n, canonical_path)
         ELSE IF SameSource(existing_package_info, package_info)
         THEN \E c \in ReadChoices(canonical_path) :
                /\ fsConfigs' = [fsConfigs EXCEPT ![canonical_path] = c]
                /\ IF c.state = "bad"
                   THEN /\ obs' = Read(Called("local", n, canonical_path, "failed", NoRange),
                                       canonical_path)
                        /\ Fail("io", n)
                        /\ UNCHANGED stack
                   ELSE /\ obs' = Read(Called("local", n, canonical_path, "same",
                                              Exactly(c.version)), canonical_path)
                        /\ Collect(n, Exactly(c.version))
                        /\ UNCHANGED <<pc, result>>
         ELSE /\ obs' = Called("local", n, canonical_path, "conflict", NoRange)
              /\ Fail("conflict", n)
              /\ UNCHANGED <<fsConfigs, stack>>

\* provide_git_package
ProvideGitPackageOk(n) ==
  /\ obs' = Called("git", n, None, "same", AtLeast(0))
  /\ Collect(n, AtLeast(0))
  /\ UNCHANGED <<fsConfigs, info, pc, result>>

ProvideGitPackage(n) ==
  /\ obs' = Called("git", n, None, "failed", NoRange)
  /\ Fail("unsupported", None)
  /\ UNCHANGED <<fsConfigs, stack, info>>

\* One iteration of the loop of resolve_versions or of provide_package; the
\* HashMap yields the dependencies in an unspecified order.
VisitDependency ==
  /\ pc = "walk"
  /\ \E n \in Top.todo :
       LET recipe == TopDeps[n]
       IN  IF recipe.kind = "Hex"
           THEN /\ Collect(n, AtLeast(recipe.min))
                /\ UNCHANGED <<fsConfigs, info, pc, result, obs>>
           ELSE IF recipe.kind = "Path"
           THEN ProvideLocalPackage(n, recipe.path)
           ELSE ProvideGitPackage(n)
  /\ UNCHANGED <<pureVars, lockVars, config, manifestFile, localFile, packagesDir, buildDirs>>
  /\ UNCHANGED <<use_manifest, cfg, manifest, manifest_updated, local, extra, missing, link_index>>
  /\ UNCHANGED <<provided, prior, resolved>>

\* provide_package after its loop: the release and package records, then
\* provided.insert, and the exact range goes back to the caller's loop.
ProvideReturn ==
  /\ pc = "walk"
  /\ Len(stack) > 1
  /\ Top.todo = {}
  /\ LET c == fsConfigs[Top.dir]
         callers == SubSeq(stack, 1, Len(stack) - 1)
     IN  /\ provided' = [provided EXCEPT ![c.name] = Provided(c.version, Top.requirements)]
         /\ stack' = [callers EXCEPT ![Len(callers)] =
                        [@ EXCEPT !.todo = @ \ {Top.name},
                                  !.requirements[Top.name] = Exactly(c.version)]]
  /\ UNCHANGED <<pureVars, lockVars, diskVars, runVars, info, prior, resolved, result, obs>>

\* ------------------------------------------------ the solver and the lookup

\* Option<&Manifest> passed to resolve_versions
NoPrior == [some |-> FALSE, manifest |-> Manifest(NoDeps, <<>>)]
Prior(m) == [some |-> TRUE, manifest |-> m]

\* config.locked(manifest): the versions the previous manifest resolved.
Locked(previous) ==
  IF previous.some THEN FromManifest(previous.manifest) ELSE NoLocalPackages

\* The names a solution covers: the required ones and, through the provided
\* packages' own requirements, the ones those require.
RECURSIVE Reach(_, _)
Reach(names, prov) ==
  LET next == names \cup
                UNION {RequirementKeys(prov[n].requirements) : n \in {m \in names : prov[m].present}}
  IN  IF next = names THEN names ELSE Reach(next, prov)

RangesOn(n, names, reqs, prov) ==
  {reqs[n]} \cup {prov[m].requirements[n] : m \in {k \in names : prov[k].present}}

\* dependency::resolve_versions: the exact versions that satisfy every range
\* on every reachable name; a provided package has its one release, and a
\* locked version is kept where the ranges still admit it.
Solutions(reqs, prov, locked) ==
  LET names == Reach(RequirementKeys(reqs), prov)
      Admits(n, v) == \A range \in RangesOn(n, names, reqs, prov) :
                        range.op = "none" \/ Satisfies(v, range)
  IN  {r \in [DepNames -> Versions \cup {NoVersion}] :
         \A n \in DepNames :
           IF n \notin names THEN r[n] = NoVersion
           ELSE /\ r[n] \in Versions
                /\ Admits(n, r[n])
                /\ prov[n].present => r[n] = prov[n].version
                /\ (~prov[n].present /\ locked[n] # NoVersion /\ Admits(n, locked[n]))
                     => r[n] = locked[n]}

\* resolve_versions after its loop: the call of the solver
Solve ==
  /\ pc = "walk"
  /\ Len(stack) = 1
  /\ Top.todo = {}
  /\ \/ \E r \in Solutions(Top.requirements, provided, Locked(prior)) :
          /\ resolved' = r
          /\ pc' = "lookup"
          /\ UNCHANGED result
     \/ /\ Fail("resolution", None)
        /\ UNCHANGED resolved
  /\ UNCHANGED <<pureVars, lockVars, diskVars, use_manifest, cfg, manifest, manifest_updated, local, extra, missing, link_index>>
  /\ UNCHANGED <<stack, info, provided, prior, obs>>

\* lookup_package
LookupPackage(name, version) ==
  IF info[name].kind = "Local"
  THEN ManifestPackage(name, version, RequirementKeys(provided[name].requirements),
                       LocalSource(info[name].path))
  ELSE ManifestPackage(name, version, {}, HexSource)

\* The orders a HashMap can yield the names of a set in.
Orders(names) ==
  {order \in [1..Cardinality(names) -> names] :
     \A i, j \in 1..Cardinality(names) : i # j => order[i] # order[j]}

\* resolve_versions after the solver: try_join_all over the solver's map, in
\* the map's order, then the Manifest with the config's merged dependencies.
\* lookup_package's expect panics for a Local name without a provided record.
Lookup ==
  /\ pc = "lookup"
  /\ \/ IF \E n \in Keys(resolved) : info[n].kind = "Local" /\ ~provided[n].present
        THEN /\ Fail("panic", None)
             /\ UNCHANGED <<manifest, manifest_updated>>
        ELSE /\ \E order \in Orders(Keys(resolved)) :
                  manifest' = Manifest(cfg, [i \in 1..Len(order) |->
                                               LookupPackage(order[i], resolved[order[i]])])
             /\ manifest_updated' = TRUE
             /\ pc' = "read_local"
             /\ UNCHANGED result
     \/ /\ \E n \in Keys(resolved) : info[n].kind = "None"
        /\ Fail("network", None)
        /\ UNCHANGED <<manifest, manifest_updated>>
  /\ UNCHANGED <<pureVars, lockVars, diskVars, use_manifest, cfg, local, extra, missing, link_index, walkVars, obs>>

\* -------------------------------------------------------- the download run

\* build/packages/<name>: nothing, an unpacked registry package, or a link
NoEntry == [kind |-> "None", version |-> NoVersion, path |-> None]
DirEntry(version) == [kind |-> "Dir", version |-> version, path |-> None]
LinkEntry(dir) == [kind |-> "Link", version |-> NoVersion, path |-> dir]
EmptyPackagesDir == [n \in AllNames |-> NoEntry]

NoManifest == Manifest(NoDeps, <<>>)
NoStack == <<>>
NoInfos == [n \in DepNames |-> NoInfo]
NoneProvided == [n \in DepNames |-> NotProvided]
NoResolved == [n \in DepNames |-> NoVersion]

\* The root configs a project goes through, and the packages `gleam add` names.
RootConfigs ==
  {m \in DepMaps : /\ m["a"].kind \in {"None", "Hex", "Path"}
                   /\ m["a"].kind = "Path" => m["a"].path \in {"p1", "p2"}
                   /\ m["b"].kind \in {"None", "Git"}}
NewPackages == {None, "a"}

\* download, up to the call of get_manifest: the config is read and the new
\* package, if any, inserted with the range ">= 0.0.0".
StartRun ==
  /\ pc = "idle"
  /\ CanLock(packages_lock)
  /\ packages_lock' = LockPackages(packages_lock, current)
  /\ \E um \in {"Yes", "No"}, new_package \in NewPackages :
       /\ use_manifest' = um
       /\ cfg' = IF new_package = None THEN config
                 ELSE [config EXCEPT ![new_package] = HexRecipe(0)]
  /\ pc' = "get_manifest"
  /\ result' = NoResult
  /\ obs' = NewObs(obs.prev, manifestFile, localFile)
  /\ UNCHANGED <<pureVars, diskVars, manifest, manifest_updated, local, extra, missing, link_index, walkVars>>
  /\ UNCHANGED <<current, parked, build_lock>>

\* get_manifest: should_resolve
ShouldResolveAlways(exists, um) == TRUE
ShouldResolveIfAbsent(exists, um) == ~exists

ShouldResolve(exists, um) == ~exists \/ um = "No"

\* get_manifest: manifest.requirements == config.all_dependencies()
UpToDateNever(m, dependencies) == FALSE

UpToDate(m, dependencies) == m.requirements = dependencies

\* get_manifest, up to the call of resolve_versions or to its return of the
\* manifest read from disc; resolve_versions up to its loop.
GetManifest ==
  /\ pc = "get_manifest"
  /\ IF ShouldResolve(manifestFile.exists, use_manifest)
     THEN /\ pc' = "walk"
          /\ prior' = NoPrior
          /\ stack' = <<Frame(RootName, "root", cfg)>>
          /\ obs' = [obs EXCEPT !.resolve_calls = @ + 1]
          /\ UNCHANGED <<manifest, manifest_updated>>
     ELSE IF UpToDate(manifestFile.content, cfg)
     THEN /\ pc' = "read_local"
          /\ manifest' = manifestFile.content
          /\ manifest_updated' = FALSE
          /\ UNCHANGED <<prior, stack, obs>>
     ELSE /\ pc' = "walk"
          /\ prior' = Prior(manifestFile.content)
          /\ stack' = <<Frame(RootName, "root", cfg)>>
          /\ obs' = [obs EXCEPT !.resolve_calls = @ + 1]
          /\ UNCHANGED <<manifest, manifest_updated>>
  /\ UNCHANGED <<pureVars, lockVars, diskVars, use_manifest, cfg, local, extra, missing, link_index>>
  /\ UNCHANGED <<info, provided, resolved, result>>

\* LocalPackages::read_from_disc, then remove_extra_packages up to its loop:
\* it takes the build-tree locks and computes the extra packages.
ReadLocal ==
  /\ pc = "read_local"
  /\ CanLock(build_lock)
  /\ build_lock' = LockAllBuild(build_lock, current)
  /\ LET l == IF localFile.exists THEN localFile.packages ELSE NoLocalPackages
     IN  /\ local' = l
         /\ extra' = ExtraLocalPackages(l, manifest)
         /\ obs' = [obs EXCEPT !.extra = ExtraLocalPackages(l, manifest)]
  /\ pc' = "remove_extra"
  /\ UNCHANGED <<pureVars, diskVars, use_manifest, cfg, manifest, manifest_updated, missing, link_index>>
  /\ UNCHANGED <<walkVars, result>>
  /\ UNCHANGED <<current, parked, packages_lock>>

\* One iteration of remove_extra_packages' loop: the package's source
\* directory is deleted if it exists, and so is its build directory of every
\* mode and target.
RemoveExtraPackage ==
  /\ pc = "remove_extra"
  /\ \E e \in extra :
       /\ extra' = extra \ {e}
       /\ packagesDir' = [packagesDir EXCEPT ![e[1]] = NoEntry]
       /\ buildDirs' = buildDirs \ {e[1]}
       /\ obs' = [obs EXCEPT
                   !.deleted = IF packagesDir[e[1]].kind # "None" THEN @ \cup {e[1]} ELSE @,
                   !.deleted_builds = @ \cup (buildDirs \cap {e[1]})]
  /\ UNCHANGED <<pureVars, lockVars, fsConfigs, config, manifestFile, localFile>>
  /\ UNCHANGED <<pc, use_manifest, cfg, manifest, manifest_updated, local, missing, link_index>>
  /\ UNCHANGED <<walkVars, result>>

\* add_missing_packages: where the link of a package is made,
\* packages_dir.join(project_name.to_string())
PackageDest(package, project_name) == project_name

\* remove_extra_packages: its loop has gone through every extra package
LoopSkipped(extras) == TRUE

LoopDone(extras) == extras = {}

\* remove_extra_packages returns, which drops its guard, and
\* add_missing_packages starts
AddMissingPackages ==
  /\ pc = "remove_extra"
  /\ LoopDone(extra)
  /\ build_lock' = DropGuard(build_lock, current)
  /\ missing' = MissingLocalPackages(local, manifest, RootName)
  /\ link_index' = 1
  /\ obs' = [obs EXCEPT !.missing = MissingLocalPackages(local, manifest, RootName),
                        !.reconciled = TRUE]
  /\ pc' = "link"
  /\ UNCHANGED <<pureVars, diskVars, use_manifest, cfg, manifest, manifest_updated, local, extra>>
  /\ UNCHANGED <<walkVars, result>>
  /\ UNCHANGED <<current, parked, packages_lock>>

\* One iteration of add_missing_packages' loop "Link local paths"
LinkLocalPath ==
  /\ pc = "link"
  /\ link_index <= Len(missing)
  /\ LET package == missing[link_index]
     IN  IF package.source.kind = "Local"
         THEN /\ packagesDir' = [packagesDir EXCEPT ![PackageDest(package, RootName)] =
                                   LinkEntry(package.source.path)]
              /\ obs' = [obs EXCEPT !.linked = @ \cup {package.name}]
         ELSE UNCHANGED <<packagesDir, obs>>
  /\ link_index' = link_index + 1
  /\ UNCHANGED <<pureVars, lockVars, fsConfigs, config, manifestFile, localFile, buildDirs>>
  /\ UNCHANGED <<pc, use_manifest, cfg, manifest, manifest_updated, local, extra, missing>>
  /\ UNCHANGED <<walkVars, result>>

\* add_missing_packages: download_hex_packages(..).await? is Ok when every
\* download of the batch is.
BatchIgnored(unpacked, wanted) == TRUE

BatchSucceeds(unpacked, wanted) == unpacked = wanted

\* Telemetry::downloading_package and Telemetry::packages_downloaded
Downloading == [event |-> "downloading", count |-> 0]
Downloaded(count) == [event |-> "downloaded", count |-> count]

\* add_missing_packages: num_to_download, which the closure of
\* missing_hex_packages increments for each registry package the iterator
\* yields, once the downloader has consumed the iterator
NumMissing(missing_packages) == Len(missing_packages)

NumToDownload(missing_packages) ==
  Len(SelectSeq(missing_packages, LAMBDA package : package.source.kind = "Hex"))

\* add_missing_packages, after the links: if missing_hex_packages.peek() is
\* some package, the "downloading" event is sent; otherwise Ok(()).
PeekHexPackages ==
  /\ pc = "link"
  /\ link_index > Len(missing)
  /\ IF \E i \in 1..Len(missing) : missing[i].source.kind = "Hex"
     THEN /\ obs' = [obs EXCEPT !.events = Append(@, Downloading)]
          /\ pc' = "download"
     ELSE /\ obs' = obs
          /\ pc' = IF manifest_updated THEN "write_manifest" ELSE "write_local"
  /\ UNCHANGED <<pureVars, lockVars, diskVars>>
  /\ UNCHANGED <<use_manifest, cfg, manifest, manifest_updated, local, extra, missing, link_index>>
  /\ UNCHANGED <<walkVars, result>>

\* The rest of add_missing_packages: the batch of registry downloads, each of
\* which unpacks into build/packages/<name>; the batch fails when one does,
\* and the "downloaded" event is sent when none does.
DownloadHexPackages ==
  /\ pc = "download"
  /\ LET missing_hex_packages == {p \in Range(missing) : p.source.kind = "Hex"}
     IN  \E unpacked \in SUBSET missing_hex_packages :
           /\ packagesDir' = [n \in AllNames |->
                                IF \E p \in unpacked : p.name = n
                                THEN DirEntry((CHOOSE p \in unpacked : p.name = n).version)
                                ELSE packagesDir[n]]
           /\ IF BatchSucceeds(unpacked, missing_hex_packages)
              THEN /\ pc' = IF manifest_updated THEN "write_manifest" ELSE "write_local"
                   /\ obs' = [obs EXCEPT !.downloaded = {p.name : p \in unpacked},
                                         !.events = Append(@, Downloaded(NumToDownload(missing)))]
                   /\ UNCHANGED result
              ELSE /\ obs' = [obs EXCEPT !.downloaded = {p.name : p \in unpacked}]
                   /\ Fail("download", None)
  /\ UNCHANGED <<pureVars, lockVars, fsConfigs, config, manifestFile, localFile, buildDirs>>
  /\ UNCHANGED <<use_manifest, cfg, manifest, manifest_updated, local, extra, missing, link_index>>
  /\ UNCHANGED walkVars

\* write_manifest_to_disc
WriteManifest ==
  /\ pc = "write_manifest"
  /\ manifestFile' = ManifestFileOf(manifest)
  /\ pc' = "write_local"
  /\ UNCHANGED <<pureVars, lockVars, fsConfigs, config, localFile, packagesDir, buildDirs>>
  /\ UNCHANGED <<use_manifest, cfg, manifest, manifest_updated, local, extra, missing, link_index>>
  /\ UNCHANGED <<walkVars, result, obs>>

\* LocalPackages::from_manifest(&manifest).write_to_disc, and Ok(manifest)
WriteLocal ==
  /\ pc = "write_local"
  /\ localFile' = LocalFileOf(FromManifest(manifest))
  /\ pc' = "returned"
  /\ result' = Ok
  /\ UNCHANGED <<pureVars, lockVars, fsConfigs, config, manifestFile, packagesDir, buildDirs>>
  /\ UNCHANGED <<use_manifest, cfg, manifest, manifest_updated, local, extra, missing, link_index>>
  /\ UNCHANGED <<walkVars, obs>>

\* A file system operation of the run returns an error: reading the config or
\* the manifest, reading packages.toml or opening the build-tree locks,
\* deleting a directory, making a link, writing either file. An error inside
\* remove_extra_packages drops that function's guard on its way out.
OperationFails ==
  /\ \/ pc \in {"get_manifest", "read_local", "write_manifest", "write_local"}
     \/ pc = "remove_extra" /\ \E e \in extra : packagesDir[e[1]].kind # "None" \/ e[1] \in buildDirs
     \/ pc = "link" /\ link_index <= Len(missing) /\ missing[link_index].source.kind = "Local"
  /\ Fail("io", None)
  /\ build_lock' = IF pc = "remove_extra" THEN DropGuard(build_lock, current) ELSE build_lock
  /\ UNCHANGED <<pureVars, diskVars>>
  /\ UNCHANGED <<use_manifest, cfg, manifest, manifest_updated, local, extra, missing, link_index>>
  /\ UNCHANGED <<walkVars, obs>>
  /\ UNCHANGED <<current, parked, packages_lock>>

\* The locals of a run that is over
Forget(prev) ==
  /\ pc' = "idle"
  /\ use_manifest' = "Yes"
  /\ cfg' = NoDeps
  /\ manifest' = NoManifest
  /\ manifest_updated' = FALSE
  /\ local' = NoLocalPackages
  /\ extra' = {}
  /\ missing' = <<>>
  /\ link_index' = 1
  /\ stack' = NoStack
  /\ info' = NoInfos
  /\ provided' = NoneProvided
  /\ prior' = NoPrior
  /\ resolved' = NoResolved
  /\ result' = NoResult
  /\ obs' = NewObs(prev, NoManifestFile, NoLocalFile)

\* download's value is computed: its scope ends, which drops the guard of the
\* package-directory lock, and the process ends.
Exit ==
  /\ pc = "returned"
  /\ Forget(IF result.status = "ok" THEN [ok |-> TRUE, cfg |-> cfg] ELSE NoPrev)
  /\ packages_lock' = DropGuard(packages_lock, current)
  /\ UNCHANGED <<pureVars, diskVars, current, parked, build_lock>>

\* The process is killed in the middle of a run; the locks of a dead process
\* are free.
Crash ==
  /\ pc \notin {"idle", "returned"}
  /\ Forget(NoPrev)
  /\ packages_lock' = Release(packages_lock, current)
  /\ build_lock' = Release(build_lock, current)
  /\ UNCHANGED <<pureVars, diskVars, current, parked>>

\* The locals of a run, and those of an invocation that has not started one.
Locals ==
  [pc |-> pc, use_manifest |-> use_manifest, cfg |-> cfg, manifest |-> manifest,
   manifest_updated |-> manifest_updated, local |-> local, extra |-> extra,
   missing |-> missing, link_index |-> link_index, stack |-> stack, info |-> info,
   provided |-> provided, prior |-> prior, resolved |-> resolved, result |-> result,
   obs |-> obs]

IdleLocals ==
  [pc |-> "idle", use_manifest |-> "Yes", cfg |-> NoDeps, manifest |-> NoManifest,
   manifest_updated |-> FALSE, local |-> NoLocalPackages, extra |-> {},
   missing |-> <<>>, link_index |-> 1, stack |-> NoStack, info |-> NoInfos,
   provided |-> NoneProvided, prior |-> NoPrior, resolved |-> NoResolved,
   result |-> NoResult, obs |-> NewObs(NoPrev, NoManifestFile, NoLocalFile)]

\* The two invocations are separate processes: either may take the next step.
\* The run variables hold the locals of the one that does.
Switch ==
  /\ current' = Other(current)
  /\ parked' = Locals
  /\ pc' = parked.pc
  /\ use_manifest' = parked.use_manifest
  /\ cfg' = parked.cfg
  /\ manifest' = parked.manifest
  /\ manifest_updated' = parked.manifest_updated
  /\ local' = parked.local
  /\ extra' = parked.extra
  /\ missing' = parked.missing
  /\ link_index' = parked.link_index
  /\ stack' = parked.stack
  /\ info' = parked.info
  /\ provided' = parked.provided
  /\ prior' = parked.prior
  /\ resolved' = parked.resolved
  /\ result' = parked.result
  /\ obs' = parked.obs
  /\ UNCHANGED <<pureVars, diskVars, packages_lock, build_lock>>

\* A compilation of the project starts: it takes a build-tree lock.
BuildStarts ==
  /\ Compiler \notin build_lock
  /\ CanLock(build_lock)
  /\ build_lock' = Acquire(build_lock, Compiler)
  /\ UNCHANGED <<pureVars, diskVars, runVars, walkVars, result, obs>>
  /\ UNCHANGED <<current, parked, packages_lock>>

\* The compilation ends: the packages it found in build/packages have a
\* build directory.
BuildEnds ==
  /\ Compiler \in build_lock
  /\ build_lock' = Release(build_lock, Compiler)
  /\ buildDirs' = buildDirs \cup {n \in AllNames : packagesDir[n].kind # "None"}
  /\ UNCHANGED <<pureVars, fsConfigs, config, manifestFile, localFile, packagesDir>>
  /\ UNCHANGED <<runVars, walkVars, result, obs>>
  /\ UNCHANGED <<current, parked, packages_lock>>

\* Between runs the project's gleam.toml is edited.
EditConfig ==
  /\ pc = "idle"
  /\ \E c \in RootConfigs \ {config} : config' = c
  /\ obs' = [obs EXCEPT !.prev = NoPrev]
  /\ UNCHANGED <<pureVars, lockVars, fsConfigs, manifestFile, localFile, packagesDir, buildDirs>>
  /\ UNCHANGED <<runVars, walkVars, result>>

\* ------------------------------------------------------ the specifications

\* The local packages of the project the download runs are made in: a at d1
\* requires b from the registry, another a at d2 requires b from git.
ProjectConfigs ==
  [d \in Dirs |->
     IF d = "d1" THEN OkConfig("a", DirVersion(d), [NoDeps EXCEPT !["b"] = HexRecipe(1)])
     ELSE OkConfig("a", DirVersion(d), [NoDeps EXCEPT !["b"] = GitRecipe])]

NoPure ==
  /\ pLocal = NoLocalPackages
  /\ pManifest = NoManifest
  /\ pRoot = RootName
  /\ pExtra = {}
  /\ pExtraVec = <<>>
  /\ pMissing = <<>>
  /\ pLines = <<>>
  /\ pStage = "none"

NoLocks ==
  /\ current = "i1"
  /\ parked = IdleLocals
  /\ packages_lock = Unlocked
  /\ build_lock = Unlocked

NoRun ==
  /\ pc = "idle"
  /\ use_manifest = "Yes"
  /\ cfg = NoDeps
  /\ manifest = NoManifest
  /\ manifest_updated = FALSE
  /\ local = NoLocalPackages
  /\ extra = {}
  /\ missing = <<>>
  /\ link_index = 1
  /\ stack = NoStack
  /\ info = NoInfos
  /\ provided = NoneProvided
  /\ prior = NoPrior
  /\ resolved = NoResolved
  /\ result = NoResult
  /\ obs = NewObs(NoPrev, NoManifestFile, NoLocalFile)

\* A fresh project: no manifest.toml, no build directory.
Init ==
  /\ NoPure
  /\ fsConfigs = ProjectConfigs
  /\ config \in RootConfigs
  /\ manifestFile = NoManifestFile
  /\ localFile = NoLocalFile
  /\ packagesDir = EmptyPackagesDir
  /\ buildDirs = {}
  /\ NoLocks
  /\ NoRun

Next ==
  \/ EditConfig
  \/ StartRun
  \/ GetManifest
  \/ VisitDependency
  \/ ProvideReturn
  \/ Solve
  \/ Lookup
  \/ ReadLocal
  \/ RemoveExtraPackage
  \/ AddMissingPackages
  \/ LinkLocalPath
  \/ PeekHexPackages
  \/ DownloadHexPackages
  \/ WriteManifest
  \/ WriteLocal
  \/ OperationFails
  \/ Exit
  \/ Crash

Spec == Init /\ [][Next]_vars

\* One call of resolve_versions, for any root dependencies and any local
\* package configs.
InitWalk ==
  /\ NoPure
  /\ fsConfigs = [d \in Dirs |-> UnreadConfig]
  /\ config \in DepMaps
  /\ manifestFile = NoManifestFile
  /\ localFile = NoLocalFile
  /\ packagesDir = EmptyPackagesDir
  /\ buildDirs = {}
  /\ current = "i1"
  /\ parked = IdleLocals
  /\ packages_lock = LockPackages(Unlocked, "i1")
  /\ build_lock = Unlocked
  /\ pc = "walk"
  /\ use_manifest = "Yes"
  /\ cfg = config
  /\ manifest = NoManifest
  /\ manifest_updated = FALSE
  /\ local = NoLocalPackages
  /\ extra = {}
  /\ missing = <<>>
  /\ link_index = 1
  /\ stack = <<Frame(RootName, "root", config)>>
  /\ info = NoInfos
  /\ provided = NoneProvided
  /\ prior = NoPrior
  /\ resolved = NoResolved
  /\ result = NoResult
  /\ obs = [NewObs(NoPrev, NoManifestFile, NoLocalFile) EXCEPT !.resolve_calls = 1]

NextWalk ==
  \/ VisitDependency
  \/ ProvideReturn
  \/ Solve
  \/ Lookup

\* The download runs of a project none of which is killed: each run returns,
\* with Ok or with the error of one of its steps.
NextRuns ==
  \/ EditConfig
  \/ StartRun
  \/ GetManifest
  \/ VisitDependency
  \/ ProvideReturn
  \/ Solve
  \/ Lookup
  \/ ReadLocal
  \/ RemoveExtraPackage
  \/ AddMissingPackages
  \/ LinkLocalPath
  \/ PeekHexPackages
  \/ DownloadHexPackages
  \/ WriteManifest
  \/ WriteLocal
  \/ OperationFails
  \/ Exit

SpecRuns == Init /\ [][NextRuns]_vars

\* Two concurrent invocations of download on the project, next to
\* compilations of it.
NextLocks ==
  \/ Switch
  \/ BuildStarts
  \/ BuildEnds
  \/ StartRun
  \/ GetManifest
  \/ VisitDependency
  \/ ProvideReturn
  \/ Solve
  \/ Lookup
  \/ ReadLocal
  \/ RemoveExtraPackage
  \/ AddMissingPackages
  \/ LinkLocalPath
  \/ PeekHexPackages
  \/ DownloadHexPackages
  \/ WriteManifest
  \/ WriteLocal
  \/ OperationFails
  \/ Exit

\* The project the two invocations run on: its one dependency is the local
\* package at p1, which has no dependencies.
LockConfigs == {m \in RootConfigs : m["a"] = PathRecipe("p1") /\ m["b"].kind = "None"}
LockProjectConfigs == [d \in Dirs |-> OkConfig("a", DirVersion(d), NoDeps)]

InitLocks ==
  /\ NoPure
  /\ fsConfigs = LockProjectConfigs
  /\ config \in LockConfigs
  /\ manifestFile = NoManifestFile
  /\ localFile = NoLocalFile
  /\ packagesDir = EmptyPackagesDir
  /\ buildDirs = {}
  /\ NoLocks
  /\ NoRun

SpecLocks == InitLocks /\ [][NextLocks]_vars

SpecWalk == InitWalk /\ [][NextWalk]_vars

\* resolve_versions is sequential code: while a step is left it is taken.
SpecWalkFair == SpecWalk /\ WF_vars(NextWalk)

\* The set differences of LocalPackages, for any local state, manifest and
\* root name.
PurePackages == {ManifestPackage(n, v, {}, HexSource) : n \in AllNames, v \in Versions}

InitPure ==
  /\ pLocal \in [AllNames -> Versions \cup {NoVersion}]
  /\ pManifest \in {Manifest(NoDeps, packages) :
                      packages \in UNION {[1..k -> PurePackages] : k \in 0..MaxPackages}}
  /\ pRoot \in AllNames
  /\ pExtra = {}
  /\ pExtraVec = <<>>
  /\ pMissing = <<>>
  /\ pLines = <<>>
  /\ pStage = "input"
  /\ fsConfigs = ProjectConfigs
  /\ config = NoDeps
  /\ manifestFile = NoManifestFile
  /\ localFile = NoLocalFile
  /\ packagesDir = EmptyPackagesDir
  /\ buildDirs = {}
  /\ NoLocks
  /\ NoRun

ComputeExtra ==
  /\ pStage = "input"
  /\ pExtra' = ExtraLocalPackages(pLocal, pManifest)
  /\ pStage' = "extra"
  /\ UNCHANGED <<pLocal, pManifest, pRoot, pExtraVec, pMissing, pLines>>
  /\ UNCHANGED <<lockVars, diskVars, runVars, walkVars, result, obs>>

ComputeMissing ==
  /\ pStage = "extra"
  /\ pMissing' = MissingLocalPackages(pLocal, pManifest, pRoot)
  /\ pStage' = "done"
  /\ UNCHANGED <<pLocal, pManifest, pRoot, pExtra, pExtraVec, pLines>>
  /\ UNCHANGED <<lockVars, diskVars, runVars, walkVars, result, obs>>

\* list_manifest_packages: try_for_each writes the lines one after the other
\* and stops at the first write that fails, which is the Err it returns.
ListPackages ==
  /\ pStage = "input"
  /\ \/ /\ pLines' = ListManifestPackages(pLines, pManifest.packages)
        /\ pStage' = "listed"
     \/ \E written \in 0..(Len(pManifest.packages) - 1) :
          /\ pLines' = ListManifestPackages(pLines, SubSeq(pManifest.packages, 1, written))
          /\ pStage' = "list_failed"
  /\ UNCHANGED <<pLocal, pManifest, pRoot, pExtra, pExtraVec, pMissing>>
  /\ UNCHANGED <<lockVars, diskVars, runVars, walkVars, result, obs>>

NextPure ==
  \/ ComputeExtra
  \/ ComputeMissing

SpecPure == InitPure /\ [][NextPure]_vars

\* The set differences with the Vec of extras as it is built, for any local
\* state and manifest, and a root name that is or is not a package's.
InitOrder ==
  /\ InitPure
  /\ pRoot \in {RootName, "a"}

\* extra_local_packages, the HashMap yielding its entries in some order
CollectExtra ==
  /\ pStage = "input"
  /\ pExtra' = ExtraLocalPackages(pLocal, pManifest)
  /\ \E order \in Orders(Keys(pLocal)) : pExtraVec' = ExtraInOrder(order, pLocal, pManifest)
  /\ pStage' = "extra"
  /\ UNCHANGED <<pLocal, pManifest, pRoot, pMissing, pLines>>
  /\ UNCHANGED <<lockVars, diskVars, runVars, walkVars, result, obs>>

NextOrder ==
  \/ CollectExtra
  \/ ComputeMissing

SpecOrder == InitOrder /\ [][NextOrder]_vars

\* The listing of any manifest.
InitList ==
  /\ InitPure
  /\ pLocal = NoLocalPackages
  /\ pRoot = RootName

NextList == ListPackages

SpecList == InitList /\ [][NextList]_vars

\* ------------------------------------------------------------------ claims

Count(x, seq) == Cardinality({i \in 1..Len(seq) : seq[i] = x})

\* C1: missing_local_packages(L, M, r) returns exactly the packages p of M
\* whose name is not r and whose version L does not record (no entry counts as
\* a different version), each as often as M lists it and in M's order; the
\* package named r is never returned.
C1_MissingExact ==
  pStage = "done" =>
    /\ \A p \in PurePackages :
         Count(p, pMissing) =
           IF p.name # pRoot /\ (pLocal[p.name] = NoVersion \/ pLocal[p.name] # p.version)
           THEN Count(p, pManifest.packages) ELSE 0
    /\ \A i \in 1..Len(pMissing) : pMissing[i].name # pRoot
    /\ \A i, j \in 1..Len(pMissing) :
         i < j => \E k, l \in 1..Len(pManifest.packages) :
                    /\ k < l
                    /\ pManifest.packages[k] = pMissing[i]
                    /\ pManifest.packages[l] = pMissing[j]

\* C1 witness: the manifest lists the root under a version the local state does
\* not record, next to a package that is returned.
C1_Witness ==
  /\ pStage = "done"
  /\ Len(pMissing) = 1
  /\ Len(pManifest.packages) = 2
  /\ \E i \in 1..2 : /\ pManifest.packages[i].name = pRoot
                     /\ pLocal[pRoot] # pManifest.packages[i].version

\* C2: extra_local_packages(L, M) returns exactly the (name, version) pairs of
\* L that are not the (name, version) of a package of M.
C2_ExtraExact ==
  pStage \in {"extra", "done"} =>
    /\ pExtra \subseteq AllNames \X Versions
    /\ \A n \in AllNames, v \in Versions :
         <<n, v>> \in pExtra <=>
           /\ pLocal[n] = v
           /\ \A i \in 1..Len(pManifest.packages) :
                pManifest.packages[i].name # n \/ pManifest.packages[i].version # v

\* C2 witness: a name stays in the manifest under another version and is
\* returned under the version the local state records.
C2_Witness ==
  /\ pStage = "extra"
  /\ \E i \in 1..Len(pManifest.packages) :
       LET p == pManifest.packages[i]
       IN  /\ pLocal[p.name] \notin {NoVersion, p.version}
           /\ <<p.name, pLocal[p.name]>> \in pExtra
           /\ \A j \in 1..Len(pManifest.packages) : pManifest.packages[j].name = p.name => j = i

\* The local-state file records exactly the names and versions of the packages
\* of the manifest file (both absent counts).
PairConsistent(mf, lf) ==
  \/ ~mf.exists /\ ~lf.exists
  \/ /\ mf.exists
     /\ lf.exists
     /\ \A n \in AllNames, v \in Versions :
          lf.packages[n] = v <=>
            \E i \in 1..Len(mf.content.packages) :
              mf.content.packages[i].name = n /\ mf.content.packages[i].version = v

\* The run follows a successful run, with UseManifest::Yes, the same config
\* and the files that run left.
SecondRun ==
  /\ pc # "idle"
  /\ obs.prev.ok
  /\ use_manifest = "Yes"
  /\ cfg = obs.prev.cfg

\* C3: such a second run computes an empty extra set and an empty missing set,
\* and deletes, links and downloads nothing.
C3_SecondRunIdle ==
  SecondRun =>
    /\ obs.extra = {}
    /\ obs.missing = <<>>
    /\ obs.deleted = {}
    /\ obs.linked = {}
    /\ obs.downloaded = {}
    /\ result.status # "err" \/ result.error = "io"

\* C3 witness: a second run has computed both sets and returned Ok, for a
\* manifest with a local and a registry package.
C3_Witness ==
  /\ SecondRun
  /\ obs.reconciled
  /\ pc = "returned"
  /\ result.status = "ok"
  /\ Len(manifest.packages) = 2

\* The steps of a run before its two writes
BeforeWrites ==
  {"get_manifest", "walk", "lookup", "read_local", "remove_extra", "link", "download"}

FilesAsAtStart == manifestFile = obs.start_manifest /\ localFile = obs.start_local

\* Every missing package of the run is materialized: linked or downloaded.
Materialized ==
  /\ obs.reconciled
  /\ extra = {}
  /\ \A i \in 1..Len(obs.missing) :
       obs.missing[i].name \in obs.linked \cup obs.downloaded

\* C4: a run writes neither file unless resolution, the removal of every
\* extra package and the materialization of every missing package have
\* succeeded; when one of them fails both files are as they were at the start.
C4_NoPartialProgress ==
  pc # "idle" =>
    /\ ~FilesAsAtStart => (Materialized /\ pc \in {"write_local", "returned"})
    /\ (result.status = "err" /\ result.at \in BeforeWrites) => FilesAsAtStart

\* C4 witness: a run that resolved a new manifest and deleted a directory
\* fails in the download batch.
C4_Witness ==
  /\ pc = "returned"
  /\ result.status = "err"
  /\ result.error = "download"
  /\ manifest_updated
  /\ obs.deleted # {}
  /\ obs.start_manifest.exists

\* A run is between its manifest write and the end of its local-state write.
BetweenWrites ==
  \/ pc = "write_local"
  \/ pc = "returned" /\ result.status = "err" /\ result.at = "write_local"

ManifestUpToDate ==
  /\ pc \notin {"idle", "get_manifest"}
  /\ use_manifest = "Yes"
  /\ obs.start_manifest.exists
  /\ obs.start_manifest.content.requirements = cfg

\* C6: then resolve_versions is not called (no walk, no solver, no lookup),
\* changed is false and the manifest get_manifest returns, unless reading the
\* files fails, is the one in the file.
C6_ResolutionSkipped ==
  ManifestUpToDate =>
    /\ obs.resolve_calls = 0
    /\ stack = NoStack
    /\ resolved = NoResolved
    /\ \A d \in Dirs : obs.reads[d] = 0
    /\ ~manifest_updated
    /\ pc \notin {"walk", "lookup", "write_manifest"}
    /\ result.at # "get_manifest" => manifest = obs.start_manifest.content

\* C6 witness: get_manifest has returned the cached manifest, which has
\* packages.
C6_Witness ==
  /\ ManifestUpToDate
  /\ pc = "read_local"
  /\ manifest.packages # <<>>

\* provide_local_package found the name registered with another canonical path.
ConflictingCall ==
  /\ obs.call.fn = "local"
  /\ obs.call.existing.kind = "Local"
  /\ obs.call.existing.path # obs.call.path

\* C7: then the resolution fails with the conflict error that names the
\* package, and produces no manifest.
C7_ConflictFails ==
  ConflictingCall =>
    /\ pc = "returned"
    /\ result = Err("conflict", obs.call.name, "walk")
    /\ manifest = NoManifest
    /\ ~manifest_updated

\* C7 witness: the second occurrence is met inside a nested local package,
\* after the first has been walked to its end.
C7_Witness ==
  /\ ConflictingCall
  /\ Len(stack) > 1
  /\ provided[obs.call.name].present

\* C7 witness: the second occurrence is met while the first is still being
\* walked.
C7_WitnessNested ==
  /\ ConflictingCall
  /\ \E i \in 2..Len(stack) : stack[i].name = obs.call.name

\* provide_local_package found the name registered with the same canonical path.
RepeatedCall ==
  /\ obs.call.fn = "local"
  /\ obs.call.existing = LocalInfo(obs.call.path)

\* C8 as claimed: then it returns "== <declared version>", reports no conflict,
\* walks nothing, and the package's gleam.toml has been parsed once only.
C8_NoSecondParse ==
  RepeatedCall =>
    /\ obs.call.outcome = "same"
    /\ obs.call.range = Exactly(fsConfigs[obs.call.path].version)
    /\ obs.reads[obs.call.path] = 1

\* C9 as claimed: provide_git_package registers the git origin before it
\* fails, and a name already registered as local fails with the conflict error.
C9_GitRegistered ==
  obs.call.fn = "git" =>
    /\ info[obs.call.name] = GitInfo
    /\ obs.call.existing.kind = "Local" => result.error = "conflict"

\* C10: when the walk visits a Git recipe, in the root config or in a local
\* package's, the run fails without a manifest and writes neither file.
C10_GitIsFatal ==
  obs.git_visited =>
    /\ pc = "returned"
    /\ result.status = "err"
    /\ manifest = NoManifest
    /\ ~manifest_updated
    /\ FilesAsAtStart

\* C10 witness: the Git recipe is a local package's, and both files exist.
C10_Witness ==
  /\ obs.git_visited
  /\ Len(stack) > 1
  /\ manifestFile.exists
  /\ localFile.exists

\* C10 witness: the Git recipe is the root config's.
C10_WitnessRoot ==
  /\ obs.git_visited
  /\ Len(stack) = 1
  /\ cfg["b"] = GitRecipe

\* provide_local_package visited a path for a name it had not seen, and the
\* gleam.toml there declares another name.
MismatchedCall ==
  /\ obs.call.fn = "local"
  /\ obs.call.existing = NoInfo
  /\ fsConfigs[obs.call.path].state = "ok"
  /\ fsConfigs[obs.call.path].name # obs.call.name

\* C11: then the resolution fails with the name-mismatch error for the
\* dependency name; no provided package is registered under that name and no
\* manifest is produced.
C11_NameMismatchFails ==
  MismatchedCall =>
    /\ pc = "returned"
    /\ result = Err("name_mismatch", obs.call.name, "walk")
    /\ ~provided[obs.call.name].present
    /\ manifest = NoManifest
    /\ ~manifest_updated

\* C11 witness: the mismatch is met in the root config's dependencies, after
\* another local package has been provided.
C11_Witness ==
  /\ MismatchedCall
  /\ Len(stack) = 1
  /\ \E n \in DepNames : provided[n].present

\* C11 witness: the mismatch is met in a local package's dependencies.
C11_WitnessNested ==
  /\ MismatchedCall
  /\ Len(stack) > 1

\* The files and directories a run deletes, links, unpacks and writes.
Cache == <<manifestFile, localFile, packagesDir>>

\* C12: two concurrent invocations of download are serialized by the
\* package-directory lock: never are both between taking the lock and the end
\* of their run, the one in its run is the lock's only holder, and every
\* deletion, link, download and write is a step of that one.
C12_Serialized ==
  /\ [](/\ ~(pc # "idle" /\ parked.pc # "idle")
        /\ pc # "idle" => packages_lock = {current}
        /\ parked.pc # "idle" => packages_lock = {Other(current)})
  /\ [][Cache' # Cache => (packages_lock = {current} /\ parked.pc = "idle")]_vars

\* C12 witness: the second invocation is in the middle of a run that found the
\* files of a run of the first one, which is waiting to start another.
C12_Witness ==
  /\ current = "i2"
  /\ pc = "write_local"
  /\ obs.start_manifest.exists
  /\ parked.pc = "idle"
  /\ parked.obs.prev.ok

\* Where the locks are in the course of one invocation's run.
LockScope(who, at) ==
  /\ at = "remove_extra" => (build_lock = {who} /\ packages_lock = {who})
  /\ at # "remove_extra" => who \notin build_lock
  /\ at = "idle" => who \notin packages_lock

\* C13: the build-tree lock is held from the start of remove_extra_packages
\* to its end and at no other step of the run, so every deletion is made
\* under both locks and no link or download under the build-tree lock; a run
\* that has ended, with Ok or with an error of any step, holds no lock.
C13_LockScope ==
  /\ [](/\ LockScope(current, pc)
        /\ LockScope(Other(current), parked.pc)
        /\ Cardinality(build_lock) <= 1)
  /\ [][packagesDir' # packagesDir =>
          IF pc = "remove_extra"
          THEN build_lock = {current} /\ packages_lock = {current}
          ELSE current \notin build_lock]_vars

\* C13 witness: a run failed to delete a directory in remove_extra_packages,
\* and a compilation has taken the build-tree lock since.
C13_Witness ==
  /\ pc = "returned"
  /\ result.status = "err"
  /\ result.at = "remove_extra"
  /\ build_lock = {Compiler}

\* C13 witness: a run has deleted a directory and goes on to download.
C13_WitnessDeleted ==
  /\ pc = "link"
  /\ obs.deleted # {}
  /\ Len(missing) > 0

\* C13 witness: after a failed run of one invocation the other has started
\* its run.
C13_WitnessNextRun ==
  /\ pc = "get_manifest"
  /\ parked.pc = "idle"
  /\ ~parked.obs.prev.ok
  /\ current = "i2"
  /\ packagesDir # EmptyPackagesDir

\* C14 as claimed: every missing package with a Local source the link loop has
\* passed has a link to its path at build/packages/<its name>, and after a
\* run that returned Ok so has every Local package of the manifest.
C14_LinkedAtOwnSlot ==
  /\ pc = "link" =>
       \A i \in 1..Len(missing) :
         (i < link_index /\ missing[i].source.kind = "Local")
           => packagesDir[missing[i].name] = LinkEntry(missing[i].source.path)
  /\ (pc = "returned" /\ result.status = "ok") =>
       \A i \in 1..Len(manifest.packages) :
         manifest.packages[i].source.kind = "Local"
           => packagesDir[manifest.packages[i].name] = LinkEntry(manifest.packages[i].source.path)

\* C15: after a run that returned Ok the local-state file holds, for every
\* name, the version of the returned manifest's package of that name and
\* nothing else, whatever the file held before.
C15_LocalStateReplaced ==
  (pc = "returned" /\ result.status = "ok") =>
    /\ localFile.exists
    /\ \A n \in AllNames, v \in Versions :
         localFile.packages[n] = v <=>
           \E i \in 1..Len(manifest.packages) :
             manifest.packages[i].name = n /\ manifest.packages[i].version = v

\* C15 witness: the cached manifest was reused, and the file held a name the
\* manifest does not have.
C15_Witness ==
  /\ pc = "returned"
  /\ result.status = "ok"
  /\ ~manifest_updated
  /\ obs.start_local.exists
  /\ \E n \in AllNames : obs.start_local.packages[n] # NoVersion /\ localFile.packages[n] = NoVersion

\* C15 witness: the manifest was resolved anew, and the file held a name the
\* manifest does not have.
C15_WitnessResolved ==
  /\ pc = "returned"
  /\ result.status = "ok"
  /\ manifest_updated
  /\ obs.start_local.exists
  /\ \E n \in AllNames : obs.start_local.packages[n] # NoVersion /\ localFile.packages[n] = NoVersion

\* The orders a Vec's elements can be put in.
Reorderings(seq) ==
  {[i \in 1..Len(seq) |-> seq[order[i]]] : order \in Orders(1..Len(seq))}

PairsOf(packages) == {<<packages[i].name, packages[i].version>> : i \in 1..Len(packages)}

\* C16: as sets, the extra packages and the missing packages are the same in
\* whatever order the local state's map yields its entries and for every
\* reordering of the manifest's package list.
C16_OrderIndependent ==
  /\ pStage = "extra" =>
       /\ Range(pExtraVec) = pExtra
       /\ \A packages \in Reorderings(pManifest.packages) :
            LET m == Manifest(pManifest.requirements, packages)
            IN  /\ ExtraLocalPackages(pLocal, m) = pExtra
                /\ \A order \in Orders(Keys(pLocal)) :
                     Range(ExtraInOrder(order, pLocal, m)) = pExtra
  /\ pStage = "done" =>
       \A packages \in Reorderings(pManifest.packages) :
         Range(MissingLocalPackages(pLocal, Manifest(pManifest.requirements, packages), pRoot))
           = Range(pMissing)

\* C16 witness: two extra and two missing packages, so that the map's order
\* and the list's order both show in the Vecs.
C16_Witness ==
  /\ pStage = "done"
  /\ Len(pExtraVec) = 2
  /\ Len(pMissing) = 2
  /\ pMissing[1] # pMissing[2]

\* C17: no (name, version) pair is both an extra package and a missing one.
C17_Disjoint == pStage = "done" => pExtra \cap PairsOf(pMissing) = {}

\* C17 witness: a name is extra under the version the local state records and
\* missing under the manifest's.
C17_Witness ==
  /\ pStage = "done"
  /\ \E e \in pExtra : \E i \in 1..Len(pMissing) :
       pMissing[i].name = e[1] /\ pMissing[i].version # e[2]

\* C18: when list_manifest_packages returns Ok it has written one line
\* "<name> <version>" for each package of the manifest, the root and repeated
\* packages included, in the manifest's order, and nothing else.
C18_ListExact ==
  pStage = "listed" =>
    /\ Len(pLines) = Len(pManifest.packages)
    /\ \A i \in 1..Len(pLines) :
         pLines[i] = <<pManifest.packages[i].name, " ", pManifest.packages[i].version, "\n">>

\* C18 witness: the manifest lists the root package and lists a package twice.
C18_Witness ==
  /\ pStage = "listed"
  /\ Len(pLines) = 2
  /\ pManifest.packages[1] = pManifest.packages[2]
  /\ pManifest.packages[1].name = RootName

\* C18 witness: two packages listed against the order of their names.
C18_WitnessOrder ==
  /\ pStage = "listed"
  /\ Len(pLines) = 2
  /\ pManifest.packages[1].name = "b"
  /\ pManifest.packages[2].name = "a"

\* C19 as claimed, for the projects no run of which has linked a local
\* package: after a run that returned Ok, whatever runs came before and
\* however they failed, every registry package of the manifest other than the
\* root has its directory in build/packages.
C19_DirectoriesPresent ==
  (pc = "returned" /\ result.status = "ok" /\ packagesDir[RootName] = NoEntry) =>
    \A i \in 1..Len(manifest.packages) :
      (manifest.packages[i].name # RootName /\ manifest.packages[i].source.kind = "Hex")
        => packagesDir[manifest.packages[i].name].kind = "Dir"

\* get_manifest's cases: resolution is forced (no manifest file, or
\* UseManifest::No), or the file's requirements are not the config's.
Forced == ~obs.start_manifest.exists \/ use_manifest = "No"
Outdated == ~Forced /\ obs.start_manifest.content.requirements # cfg

\* get_manifest has returned Ok.
ManifestReturned ==
  \/ pc \in {"read_local", "remove_extra", "link", "download", "write_manifest", "write_local"}
  \/ pc = "returned" /\ result.at \notin {"get_manifest", "walk", "lookup"}

\* C20: get_manifest calls resolve_versions once when resolution is forced or
\* the manifest is outdated and not at all otherwise, returns changed = true
\* in just those cases, and passes the manifest of the file as the locked
\* baseline only when it is outdated.
C20_ResolveCases ==
  (pc \notin {"idle", "get_manifest"} /\ result.at # "get_manifest") =>
    /\ obs.resolve_calls = IF Forced \/ Outdated THEN 1 ELSE 0
    /\ prior = IF Outdated THEN Prior(obs.start_manifest.content) ELSE NoPrior
    /\ ManifestReturned => (manifest_updated <=> (Forced \/ Outdated))

\* C20 witness: UseManifest::No with a manifest file that is up to date; the
\* resolution, without a baseline, returned other versions than the file's.
C20_Witness ==
  /\ pc = "read_local"
  /\ use_manifest = "No"
  /\ obs.start_manifest.exists
  /\ obs.start_manifest.content.requirements = cfg
  /\ manifest_updated
  /\ manifest.packages # <<>>
  /\ PairsOf(manifest.packages) # PairsOf(obs.start_manifest.content.packages)

\* C20 witness: the manifest file is outdated and the resolution, with the
\* file's manifest as its baseline, has returned.
C20_WitnessOutdated ==
  /\ pc = "read_local"
  /\ Outdated
  /\ prior.some
  /\ prior.manifest.packages # <<>>
  /\ manifest_updated

\* The provider walk is over: resolve_versions' loop has visited every
\* dependency of the root config, or an error has been returned.
WalkEnded ==
  \/ pc # "walk"
  \/ Len(stack) = 1 /\ stack[1].todo = {}

\* C21: the provider walk ends, in success or in an error, whatever the local
\* packages declare (cycles and self-dependencies included); no name's
\* dependencies are walked twice and no name is walked inside its own walk.
C21_WalkTerminates ==
  /\ [](/\ \A n \in DepNames : obs.walks[n] <= 1
        /\ \A i, j \in 2..Len(stack) : i # j => stack[i].name # stack[j].name)
  /\ <>WalkEnded

\* C21 witness: a depends on b by path and b on a, and the walk has ended in
\* success after walking each once.
C21_Witness ==
  /\ pc = "lookup"
  /\ \A n \in DepNames : obs.walks[n] = 1
  /\ fsConfigs["d1"].state = "ok"
  /\ fsConfigs["d2"].state = "ok"
  /\ fsConfigs["d1"].name # fsConfigs["d2"].name
  /\ fsConfigs["d1"].deps[fsConfigs["d2"].name].kind = "Path"
  /\ fsConfigs["d2"].deps[fsConfigs["d1"].name].kind = "Path"

\* C21 witness: a local package depends on itself by path.
C21_WitnessSelf ==
  /\ WalkEnded
  /\ \E d \in Dirs :
       /\ fsConfigs[d].state = "ok"
       /\ fsConfigs[d].deps[fsConfigs[d].name].kind = "Path"
       /\ obs.walks[fsConfigs[d].name] = 1
       /\ obs.reads[d] = 2

\* A step deletes a package's source directory or its build directories.
DeletesDirectory ==
  \E n \in AllNames :
    \/ packagesDir[n].kind # "None" /\ packagesDir'[n].kind = "None"
    \/ n \in buildDirs /\ n \notin buildDirs'

\* A step makes a link or unpacks a downloaded package in build/packages.
MaterializesDirectory ==
  \E n \in AllNames : packagesDir'[n] # packagesDir[n] /\ packagesDir'[n].kind # "None"

\* A registry package of the manifest whose version differs from the one
\* packages.toml recorded at the start of the run.
VersionBumped(package) ==
  /\ package.source.kind = "Hex"
  /\ \E e \in obs.extra : e[1] = package.name /\ e[2] # package.version

\* C22: in a download run every deletion of an extra package's directories is
\* made before the first link or download of the run, and none after it: when
\* the links start no extra package is left and none has a source or build
\* directory; a step that deletes finds nothing linked or downloaded by the
\* run; a step that links or downloads finds no extra package left. After the
\* batch succeeded a version-bumped registry package is there under its new
\* version.
C22_DeletionsFirst ==
  /\ [](pc \in {"link", "download", "write_manifest", "write_local"} => extra = {})
  /\ []((pc = "link" /\ link_index = 1) =>
          \A e \in obs.extra : packagesDir[e[1]].kind = "None" /\ e[1] \notin buildDirs)
  /\ []((pc \in {"write_manifest", "write_local"} \/ (pc = "returned" /\ result.status = "ok")) =>
          \A i \in 1..Len(missing) :
            VersionBumped(missing[i]) =>
              packagesDir[missing[i].name] = DirEntry(missing[i].version))
  /\ [][DeletesDirectory =>
          pc = "remove_extra" /\ obs.linked = {} /\ obs.downloaded = {} /\ obs.events = <<>>]_vars
  /\ [][MaterializesDirectory => pc \in {"link", "download"} /\ extra = {}]_vars

\* C22 witness: a registry package was installed under another version; the
\* run has deleted its source and build directories and downloaded it again.
C22_Witness ==
  /\ pc = "write_manifest"
  /\ \E i \in 1..Len(missing) :
       /\ VersionBumped(missing[i])
       /\ missing[i].name \in obs.deleted
       /\ missing[i].name \in obs.deleted_builds
       /\ missing[i].name \in obs.downloaded

\* C22 witness: a run that deleted a registry package has linked a local one.
C22_WitnessLinked ==
  /\ obs.deleted # {}
  /\ obs.linked # {}

\* The missing packages of the run that come from the registry.
MissingHex == {i \in 1..Len(missing) : missing[i].source.kind = "Hex"}

\* add_missing_packages has returned Ok.
AddedMissing ==
  \/ pc \in {"write_manifest", "write_local"}
  \/ pc = "returned" /\ result.at \in {"write_manifest", "write_local"}
  \/ pc = "returned" /\ result.status = "ok"

\* C23: add_missing_packages sends "downloading" before the batch of registry
\* downloads starts and "downloaded N" only after the whole batch succeeded,
\* N being the number of missing registry packages; a failed batch sends no
\* "downloaded"; with no missing registry package no event is sent and
\* nothing is downloaded.
C23_DownloadEvents ==
  /\ [](pc \in {"idle", "get_manifest", "walk", "lookup", "read_local", "remove_extra", "link"}
          => obs.events = <<>>)
  /\ [](pc = "download" =>
          obs.events = <<Downloading>> /\ obs.downloaded = {} /\ MissingHex # {})
  /\ []((pc = "returned" /\ result.at = "download") =>
          /\ obs.events = <<Downloading>>
          /\ \E i \in MissingHex : missing[i].name \notin obs.downloaded)
  /\ []((AddedMissing /\ MissingHex # {}) =>
          /\ obs.events = <<Downloading, Downloaded(Cardinality(MissingHex))>>
          /\ obs.downloaded = {missing[i].name : i \in MissingHex}
          /\ \A i \in MissingHex : packagesDir[missing[i].name] = DirEntry(missing[i].version))
  /\ []((AddedMissing /\ MissingHex = {}) => obs.events = <<>> /\ obs.downloaded = {})
  /\ [][(\E n \in AllNames : packagesDir'[n] # packagesDir[n] /\ packagesDir'[n].kind = "Dir")
          => obs.events = <<Downloading>>]_vars

\* C23 witness: a local package and a registry package were missing and the
\* batch succeeded; "downloaded 1 packages" was sent.
C23_Witness ==
  /\ pc = "write_manifest"
  /\ Len(missing) = 2
  /\ obs.linked # {}
  /\ obs.events = <<Downloading, Downloaded(1)>>

\* C23 witness: the batch failed after "downloading" was sent.
C23_WitnessFailed ==
  /\ pc = "returned"
  /\ result.at = "download"
  /\ obs.events = <<Downloading>>

\* C23 witness: a run with no missing registry package has passed
\* add_missing_packages without an event.
C23_WitnessNone ==
  /\ pc = "write_local"
  /\ obs.reconciled
  /\ MissingHex = {}
  /\ obs.events = <<>>

\* The provider walk has finished without an error: what follows is the
\* solver and the lookups.
WalkSucceeded ==
  \/ pc = "walk" /\ Len(stack) = 1 /\ stack[1].todo = {}
  \/ pc \in {"lookup", "read_local"}
  \/ pc = "returned" /\ result.error \in {"resolution", "network", "panic"}

\* C24: after a provider walk that finished without an error the names
\* registered in ProviderInfo are the names of the provided packages, and
\* lookup_package's expect never fails.
C24_InfoMatchesProvided ==
  /\ WalkSucceeded =>
       {n \in DepNames : info[n].kind # "None"} = {n \in DepNames : provided[n].present}
  /\ result.error # "panic"

\* C24 witness: a and b require each other by path, so that a was reached
\* again before its record was inserted; the walk finished and the lookups
\* built the manifest with both as local packages.
C24_Witness ==
  /\ pc = "read_local"
  /\ \A n \in DepNames : info[n].kind = "Local" /\ obs.walks[n] = 1
  /\ \E d, e \in Dirs :
       /\ d # e
       /\ fsConfigs[d].state = "ok"
       /\ fsConfigs[e].state = "ok"
       /\ fsConfigs[d].deps[fsConfigs[e].name] = PathRecipe("p2")
       /\ fsConfigs[e].deps[fsConfigs[d].name] = PathRecipe("p1")
  /\ \A i \in 1..Len(manifest.packages) : manifest.packages[i].source.kind = "Local"
  /\ Len(manifest.packages) = 2

====
